---- MODULE Spec2Model ----
(***************************************************************************)
(* Model of clock_update.c: set_tod_from_ports (decode of the time-of-day  *)
(* port), set_display_from_tod (encode of a tod_t into the LCD bit         *)
(* pattern) and clock_update (port -> display port).                       *)
(*                                                                         *)
(* Three specifications share the variables:                               *)
(*   SpecDecode  a caller runs set_tod_from_ports on its own tod_t and,    *)
(*               when that succeeds, set_display_from_tod on the result;   *)
(*   SpecEncode  a caller runs set_display_from_tod on an arbitrary tod_t; *)
(*   Spec        the environment changes TIME_OF_DAY_PORT and calls        *)
(*               clock_update, strictly one after the other.               *)
(***************************************************************************)
EXTENDS Integers, FiniteSets

VARIABLES
    TIME_OF_DAY_PORT,    \* global int, sixteenths of a second since midnight
    CLOCK_DISPLAY_PORT,  \* global int, the LCD bit pattern
    tod,                 \* the caller's tod_t
    display,             \* the caller's int pointed at by `display`
    ret,                 \* return value of the last call (-1: none yet)
    enc_ret,             \* return value clock_update discards at line 127
    pc,                  \* position of the caller
    pre,                 \* snapshot of the state when the last call began
    lastGood,            \* history: value written by the last successful update
    failed               \* history: failed updates since the last success

vars == <<TIME_OF_DAY_PORT, CLOCK_DISPLAY_PORT, tod, display, ret, enc_ret,
          pc, pre, lastGood, failed>>

----------------------------------------------------------------------------
(* Bounds of the explored input space. *)

\* half-width of the window of raw readings explored around each hour boundary
Window == 9
\* the history counter `failed` saturates here
MaxFailed == 2

----------------------------------------------------------------------------
(* C integer operators on the values the code applies them to. *)

RECURSIVE Pow2(_)
Pow2(k) == IF k = 0 THEN 1 ELSE 2 * Pow2(k - 1)

\* x << k for a non-negative x whose result stays below 2^31
ShiftLeft(x, k) == x * Pow2(k)

\* x >> k (arithmetic)
ShiftRight(x, k) == x \div Pow2(k)

\* x | y on non-negative ints, bit by bit
RECURSIVE BitOr(_, _)
BitOr(x, y) ==
    IF x = 0 THEN y
    ELSE IF y = 0 THEN x
    ELSE (IF (x % 2 = 1) \/ (y % 2 = 1) THEN 1 ELSE 0)
         + 2 * BitOr(x \div 2, y \div 2)

IntMin == -2147483647 - 1
IntMax == 2147483647

----------------------------------------------------------------------------
(* set_tod_from_ports *)

MaxPort == 16 * 86400

\* faulty variant: the upper bound is off by one
PortInvalidMutant(port_val) == port_val < 0 \/ port_val > MaxPort + 1
PortInvalid(port_val) == port_val < 0 \/ port_val > MaxPort

DaySecs(port_val) == ShiftRight(port_val + 8, 4)

\* faulty variant: the special case of hour 0 is forgotten
TimeHoursMutant(day_secs) ==
    LET h == (day_secs \div 3600) % 24
    IN  IF h > 12 THEN h - 12 ELSE h
\* faulty variant: the afternoon hours are not brought back to 1..11
TimeHoursNoWrapMutant(day_secs) ==
    LET h == (day_secs \div 3600) % 24
    IN  IF h = 0 THEN 12 ELSE h
TimeHours(day_secs) ==
    LET h == (day_secs \div 3600) % 24
    IN  IF h = 0 THEN 12
        ELSE IF h > 12 THEN h - 12
        ELSE h

\* faulty variant: the seconds left in the hour are reduced, not divided
TimeMinsMutant(day_secs) == (day_secs % 3600) % 60
TimeMins(day_secs) == (day_secs % 3600) \div 60

TimeSecs(day_secs) == day_secs % 60

AmPm(day_secs) == IF day_secs >= 43200 THEN 2 ELSE 1

\* faulty variant: the struct is cleared before the range check
SetTodFromPortsMutant(port, t) ==
    LET port_val == port
        z        == [day_secs |-> 0, time_secs |-> 0, time_mins |-> 0,
                     time_hours |-> 0, ampm |-> 0]
    IN  IF PortInvalid(port_val)
        THEN [ret |-> 1, tod |-> z]
        ELSE LET ds == DaySecs(port_val)
             IN  [ret |-> 0,
                  tod |-> [day_secs   |-> ds,
                           time_secs  |-> TimeSecs(ds),
                           time_mins  |-> TimeMins(ds),
                           time_hours |-> TimeHours(ds),
                           ampm       |-> AmPm(ds)]]
\* the call set_tod_from_ports(&t) with TIME_OF_DAY_PORT = port:
\* the return value and the caller's struct afterwards
SetTodFromPorts(port, t) ==
    LET port_val == port
    IN  IF PortInvalid(port_val)
        THEN [ret |-> 1, tod |-> t]
        ELSE LET ds == DaySecs(port_val)
             IN  [ret |-> 0,
                  tod |-> [day_secs   |-> ds,
                           time_secs  |-> TimeSecs(ds),
                           time_mins  |-> TimeMins(ds),
                           time_hours |-> TimeHours(ds),
                           ampm       |-> AmPm(ds)]]

----------------------------------------------------------------------------
(* set_display_from_tod *)

\* int mask[10]: the bit masks of the digits 0-9
mask == [d \in 0..9 |->
            CASE d = 0 -> 119   \* 0b1110111
              [] d = 1 -> 36    \* 0b0100100
              [] d = 2 -> 93    \* 0b1011101
              [] d = 3 -> 109   \* 0b1101101
              [] d = 4 -> 46    \* 0b0101110
              [] d = 5 -> 107   \* 0b1101011
              [] d = 6 -> 123   \* 0b1111011
              [] d = 7 -> 37    \* 0b0100101
              [] d = 8 -> 127   \* 0b1111111
              [] d = 9 -> 111]  \* 0b1101111

\* the error check of line 78
TodInvalid(t) ==
    \/ t.time_secs < 0  \/ t.time_secs > 59
    \/ t.time_mins < 0  \/ t.time_mins > 59
    \/ t.time_hours < 0 \/ t.time_hours > 12
    \/ t.ampm > 2

\* faulty variant: the tens-of-hours glyph is placed even when it is the digit 0
DigitBitsMutant(t) ==
    LET min_ones == t.time_mins % 10
        min_tens == t.time_mins \div 10
        hrs_ones == t.time_hours % 10
        hrs_tens == t.time_hours \div 10
        d0       == mask[min_ones]
    IN  BitOr(BitOr(BitOr(ShiftLeft(mask[min_tens], 7),
                          ShiftLeft(mask[hrs_ones], 14)),
                    ShiftLeft(mask[hrs_tens], 21)),
              d0)
\* lines 82-95: *display after the digits are placed
DigitBits(t) ==
    LET min_ones == t.time_mins % 10
        min_tens == t.time_mins \div 10
        hrs_ones == t.time_hours % 10
        hrs_tens == t.time_hours \div 10
        d0       == mask[min_ones]
    IN  IF hrs_tens = 0
        THEN BitOr(BitOr(ShiftLeft(mask[min_tens], 7),
                         ShiftLeft(mask[hrs_ones], 14)),
                   d0)
        ELSE BitOr(BitOr(BitOr(ShiftLeft(mask[min_tens], 7),
                               ShiftLeft(mask[hrs_ones], 14)),
                         ShiftLeft(mask[hrs_tens], 21)),
                   d0)

\* lines 97-103: the AM or PM bit is or-ed into *display
AmPmBits(t, d) ==
    IF t.ampm = 1
    THEN BitOr(ShiftLeft(1, 28), d)
    ELSE BitOr(ShiftLeft(1, 29), d)

\* the call set_display_from_tod(t, &d): the return value and d afterwards
SetDisplayFromTod(t, d) ==
    IF TodInvalid(t)
    THEN [ret |-> 1, display |-> d]
    ELSE [ret |-> 0, display |-> AmPmBits(t, DigitBits(t))]

----------------------------------------------------------------------------
(* clock_update *)

\* faulty variant: a failed decode blanks the display port
ClockUpdateMutant(port, dport, t0) ==
    LET r == SetTodFromPorts(port, t0)
        e == SetDisplayFromTod(r.tod, 0)
    IN  IF r.ret = 1
        THEN [ret |-> 1, CLOCK_DISPLAY_PORT |-> 0, enc_ret |-> -1]
        ELSE [ret |-> 0, CLOCK_DISPLAY_PORT |-> e.display, enc_ret |-> e.ret]
\* the call clock_update() with the two ports as given and the local tod_t
\* holding t0 (it is declared without an initializer)
clock_update(port, dport, t0) ==
    LET r == SetTodFromPorts(port, t0)
    IN  IF r.ret = 1
        THEN [ret |-> 1, CLOCK_DISPLAY_PORT |-> dport, enc_ret |-> -1]
        ELSE LET ptr == 0
                 e   == SetDisplayFromTod(r.tod, ptr)
             IN  [ret |-> 0, CLOCK_DISPLAY_PORT |-> e.display,
                  enc_ret |-> e.ret]

----------------------------------------------------------------------------
(* Inputs *)

\* raw readings: a window around every hour boundary of the day (0 and
\* 16*86400 included, so both out-of-range sides are covered), around the
\* turns 9:59:59 -> 10:00:00 and 12:59:59 -> 1:00:00, a grid of times
\* with every rounding phase, and the two extreme ints
Bases ==
    {16 * 3600 * h : h \in 0..24}
    \cup {16 * 39906, 16 * 36000 - 16, 16 * 46800 - 16, 16 * 79200 - 16}

GridMins == 0..59
GridSecs == {0, 6, 59}
Phases   == {0, 7, 8, 15}

RawValues ==
    {b + d : b \in Bases, d \in (-Window)..Window}
    \cup {16 * (3600 * h + 60 * m + s) + f :
             h \in 0..23, m \in GridMins, s \in GridSecs, f \in Phases}
    \cup {IntMin, IntMax}

\* what the caller's tod_t may hold before set_tod_from_ports fills it
TodZero == [day_secs |-> 0, time_secs |-> 0, time_mins |-> 0,
            time_hours |-> 0, ampm |-> 0]
GarbageTods ==
    {TodZero,
     [day_secs |-> -1, time_secs |-> -1, time_mins |-> -1,
      time_hours |-> -1, ampm |-> -1],
     [day_secs |-> 4000, time_secs |-> 40, time_mins |-> 6,
      time_hours |-> 1, ampm |-> 1]}

\* what *display, or CLOCK_DISPLAY_PORT, may hold before it is written
PriorDisplays == {0, Pow2(30) - 1, ShiftLeft(1, 29) + 119}

\* tod_t values handed to set_display_from_tod directly, in and out of range
TodInputs ==
    [day_secs   : {0},
     time_secs  : {-1, 0, 6, 59, 60},
     time_mins  : {-1, 0, 5, 10, 37, 48, 59, 60},
     time_hours : (-1)..13,
     ampm       : (-1)..3]

\* readings the environment puts on the port between updates
PortValues ==
    {16 * (3600 * h + 60 * (2 * h + 7)) + 3 : h \in 0..23}
    \cup {b + d : b \in {0, 16 * 43200, 16 * 86400}, d \in {-9, -8, -1, 0, 1}}
    \cup {16 * 39906, 16 * 36000 - 8, 16 * 36000 - 9, IntMin, IntMax}
    \cup {-k : k \in 1..MaxFailed} \cup {MaxPort + k : k \in 1..MaxFailed}

NoCall == [port |-> 0, dport |-> 0, tod |-> TodZero, display |-> 0,
           lastGood |-> 0, failed |-> 0]

Snapshot == [port |-> TIME_OF_DAY_PORT, dport |-> CLOCK_DISPLAY_PORT,
             tod |-> tod, display |-> display,
             lastGood |-> lastGood, failed |-> failed]

----------------------------------------------------------------------------
(* SpecDecode: set_tod_from_ports, then set_display_from_tod on its result *)

InitDecode ==
    /\ TIME_OF_DAY_PORT \in RawValues
    /\ CLOCK_DISPLAY_PORT = 0
    /\ tod \in GarbageTods
    /\ display \in PriorDisplays
    /\ ret = -1
    /\ enc_ret = -1
    /\ pc = "start"
    /\ pre = NoCall
    /\ lastGood = 0
    /\ failed = 0

CallSetTodFromPorts ==
    /\ pc = "start"
    /\ LET r == SetTodFromPorts(TIME_OF_DAY_PORT, tod)
       IN  /\ tod' = r.tod
           /\ ret' = r.ret
    /\ pre' = Snapshot
    /\ pc' = "decoded"
    /\ UNCHANGED <<TIME_OF_DAY_PORT, CLOCK_DISPLAY_PORT, display, enc_ret,
                   lastGood, failed>>

CallSetDisplayOfDecoded ==
    /\ pc = "decoded"
    /\ ret = 0
    /\ LET e == SetDisplayFromTod(tod, display)
       IN  /\ display' = e.display
           /\ enc_ret' = e.ret
    /\ pc' = "displayed"
    /\ UNCHANGED <<TIME_OF_DAY_PORT, CLOCK_DISPLAY_PORT, tod, ret, pre,
                   lastGood, failed>>

NextDecode == CallSetTodFromPorts \/ CallSetDisplayOfDecoded

SpecDecode == InitDecode /\ [][NextDecode]_vars

----------------------------------------------------------------------------
(* SpecEncode: set_display_from_tod on any tod_t *)

InitEncode ==
    /\ TIME_OF_DAY_PORT = 0
    /\ CLOCK_DISPLAY_PORT = 0
    /\ tod \in TodInputs
    /\ display \in PriorDisplays
    /\ ret = -1
    /\ enc_ret = -1
    /\ pc = "start"
    /\ pre = NoCall
    /\ lastGood = 0
    /\ failed = 0

CallSetDisplayFromTod ==
    /\ pc = "start"
    /\ LET e == SetDisplayFromTod(tod, display)
       IN  /\ display' = e.display
           /\ ret' = e.ret
    /\ pre' = Snapshot
    /\ pc' = "encoded"
    /\ UNCHANGED <<TIME_OF_DAY_PORT, CLOCK_DISPLAY_PORT, tod, enc_ret,
                   lastGood, failed>>

NextEncode == CallSetDisplayFromTod

SpecEncode == InitEncode /\ [][NextEncode]_vars

----------------------------------------------------------------------------
(* Spec: the environment and clock_update, serialized *)

Init ==
    /\ TIME_OF_DAY_PORT \in PortValues
    /\ CLOCK_DISPLAY_PORT \in PriorDisplays
    /\ tod = TodZero
    /\ display = 0
    /\ ret = -1
    /\ enc_ret = -1
    /\ pc = "idle"
    /\ pre = NoCall
    /\ lastGood = CLOCK_DISPLAY_PORT
    /\ failed = 0

\* the hardware puts a new reading on the time-of-day port
SetPort ==
    /\ \E v \in PortValues : TIME_OF_DAY_PORT' = v
    /\ pc' = "idle"
    /\ ret' = -1
    /\ enc_ret' = -1
    /\ pre' = NoCall
    /\ UNCHANGED <<CLOCK_DISPLAY_PORT, tod, display, lastGood, failed>>

Min(a, b) == IF a < b THEN a ELSE b

ClockUpdate ==
    /\ \E t0 \in GarbageTods :
         LET u == clock_update(TIME_OF_DAY_PORT, CLOCK_DISPLAY_PORT, t0)
         IN  /\ CLOCK_DISPLAY_PORT' = u.CLOCK_DISPLAY_PORT
             /\ ret' = u.ret
             /\ enc_ret' = u.enc_ret
             /\ lastGood' = IF u.ret = 0 THEN u.CLOCK_DISPLAY_PORT
                            ELSE lastGood
             /\ failed' = IF u.ret = 0 THEN 0 ELSE Min(failed + 1, MaxFailed)
    /\ pre' = Snapshot
    /\ pc' = "updated"
    /\ UNCHANGED <<TIME_OF_DAY_PORT, tod, display>>

Next == SetPort \/ ClockUpdate

Spec == Init /\ [][Next]_vars

----------------------------------------------------------------------------
(* Reading a display pattern *)

\* the 7-bit field of pattern d that starts at bit offset off
Field(d, off) == (d \div Pow2(off)) % 128

\* bit k of pattern d
Bit(d, k) == (d \div Pow2(k)) % 2

RawInRange(raw) == 0 <= raw /\ raw <= 16 * 86400

\* a tod_t that meets the TimeOfDay invariants
TodInRange(t) ==
    /\ t.time_secs \in 0..59
    /\ t.time_mins \in 0..59
    /\ t.time_hours \in 1..12
    /\ t.ampm \in {1, 2}

----------------------------------------------------------------------------
(* Claims *)

\* C1: when the time-of-day port is negative or above 16*86400, clock_update
\* returns 1 and the display port holds the value it held before the call,
\* whatever that value was.
C1_FailStatic ==
    (pc = "updated" /\ ~RawInRange(TIME_OF_DAY_PORT))
        => (ret = 1 /\ CLOCK_DISPLAY_PORT = pre.dport)

\* a failed update on port -1 that left a lit (non-zero) pattern in place
C1_Witness ==
    /\ pc = "updated"
    /\ TIME_OF_DAY_PORT = -1
    /\ ret = 1
    /\ pre.dport # 0
    /\ CLOCK_DISPLAY_PORT = pre.dport

\* C2: set_tod_from_ports returns 1 exactly when the port is < 0 or
\* > 16*86400, and then every field of the caller's tod_t is as before the
\* call; for a port in [0, 16*86400] it returns 0.
C2_DecodeRange ==
    pc = "decoded" =>
        /\ ret \in {0, 1}
        /\ ret = 1 <=> ~RawInRange(TIME_OF_DAY_PORT)
        /\ ret = 1 => tod = pre.tod
        /\ RawInRange(TIME_OF_DAY_PORT) => ret = 0

\* a rejected reading one above the maximum, the caller's struct untouched
C2_Witness ==
    /\ pc = "decoded"
    /\ TIME_OF_DAY_PORT = 16 * 86400 + 1
    /\ ret = 1
    /\ tod = pre.tod
    /\ tod.time_hours = 1

\* C3: every successful set_tod_from_ports leaves 0 <= day_secs <= 86400,
\* 1 <= time_hours <= 12, 0 <= time_mins <= 59, 0 <= time_secs <= 59 and
\* ampm 1 or 2.
C3_TodBounds ==
    (pc = "decoded" /\ RawInRange(TIME_OF_DAY_PORT)) =>
        /\ ret = 0
        /\ tod.day_secs \in 0..86400
        /\ tod.time_hours \in 1..12
        /\ tod.time_mins \in 0..59
        /\ tod.time_secs \in 0..59
        /\ tod.ampm \in {1, 2}

\* a decode in the first hour of the day, where the raw hour is 0
C3_Witness ==
    /\ pc = "decoded"
    /\ ret = 0
    /\ TIME_OF_DAY_PORT = 16 * 59 + 8
    /\ tod.day_secs = 60
    /\ tod.time_hours = 12
    /\ tod.time_mins = 1

\* C4: for a port in [16*86400 - 8, 16*86400] the decode gives
\* day_secs = 86400 and the time 12:00:00 AM.
C4_MidnightWrap ==
    (pc = "decoded" /\ TIME_OF_DAY_PORT >= 16 * 86400 - 8
                    /\ TIME_OF_DAY_PORT <= 16 * 86400) =>
        /\ ret = 0
        /\ tod.day_secs = 86400
        /\ tod.time_hours = 12
        /\ tod.time_mins = 0
        /\ tod.time_secs = 0
        /\ tod.ampm = 1

\* C5: set_display_from_tod returns 1 and leaves *display as it was whenever
\* time_secs or time_mins is outside 0..59, time_hours is outside 1..12 or
\* ampm is neither 1 nor 2.
C5_EncodeRejects ==
    (pc = "encoded" /\ ~TodInRange(tod))
        => (ret = 1 /\ display = pre.display)

\* C6: for a tod_t within the bounds set_display_from_tod returns 0 and bits
\* 0..27 of *display are the glyphs of the minutes' ones and tens, the hours'
\* ones and, only when the hour is 10 or more, the glyph of 1 at offset 21
\* (otherwise seven zero bits); the prior *display and time_secs play no part.
C6_DigitLayout ==
    (pc = "encoded" /\ TodInRange(tod)) =>
        /\ ret = 0
        /\ Field(display, 0) = mask[tod.time_mins % 10]
        /\ Field(display, 7) = mask[tod.time_mins \div 10]
        /\ Field(display, 14) = mask[tod.time_hours % 10]
        /\ Field(display, 21) = IF tod.time_hours >= 10 THEN mask[1] ELSE 0
        /\ display % Pow2(28) =
              mask[tod.time_mins % 10]
              + 128 * mask[tod.time_mins \div 10]
              + 128 * 128 * mask[tod.time_hours % 10]
              + (IF tod.time_hours >= 10 THEN 128 * 128 * 128 * mask[1] ELSE 0)

\* 9:48 encoded over a pattern that had every bit set: the tens-of-hours
\* field comes out zero
C6_Witness ==
    /\ pc = "encoded"
    /\ ret = 0
    /\ tod.time_hours = 9
    /\ tod.time_mins = 48
    /\ tod.time_secs = 59
    /\ pre.display = Pow2(30) - 1
    /\ Field(display, 21) = 0
    /\ Field(display, 14) = 111

\* C7: in every successful result of set_display_from_tod bit 28 is set
\* exactly when ampm is AM (1), bit 29 exactly when ampm is PM (2), exactly
\* one of the two is set, and no bit above 29 is set.
C7_MeridiemBits ==
    (pc = "encoded" /\ ret = 0) =>
        /\ Bit(display, 28) = 1 <=> tod.ampm = 1
        /\ Bit(display, 29) = 1 <=> tod.ampm = 2
        /\ Bit(display, 28) + Bit(display, 29) = 1
        /\ display >= 0
        /\ display < Pow2(30)

\* C8 as stated: port 16*39906 decodes to 11:05:06 AM and encodes with a zero
\* tens-of-hours field, the glyphs 1, 0, 5 in the other three fields, bit 28
\* set and bit 29 clear.
C8_Original ==
    (pc = "displayed" /\ TIME_OF_DAY_PORT = 16 * 39906) =>
        /\ tod.time_hours = 11 /\ tod.time_mins = 5
        /\ tod.time_secs = 6 /\ tod.ampm = 1
        /\ Field(display, 21) = 0
        /\ Field(display, 14) = mask[1]
        /\ Field(display, 7) = mask[0]
        /\ Field(display, 0) = mask[5]
        /\ Bit(display, 28) = 1
        /\ Bit(display, 29) = 0

\* C8 amended: port 16*39906 decodes to 11:05:06 AM and encodes with the
\* glyph of 1 in the tens-of-hours field, the glyphs 1, 0, 5 in the other
\* three fields, bit 28 set and bit 29 clear.
C8_EndToEnd ==
    (pc = "displayed" /\ TIME_OF_DAY_PORT = 16 * 39906) =>
        /\ ret = 0 /\ enc_ret = 0
        /\ tod.day_secs = 39906
        /\ tod.time_hours = 11 /\ tod.time_mins = 5
        /\ tod.time_secs = 6 /\ tod.ampm = 1
        /\ Field(display, 21) = mask[1]
        /\ Field(display, 14) = mask[1]
        /\ Field(display, 7) = mask[0]
        /\ Field(display, 0) = mask[5]
        /\ Bit(display, 28) = 1
        /\ Bit(display, 29) = 0

\* the reading 16*39906 decoded and then encoded
C8_Witness ==
    /\ pc = "displayed"
    /\ TIME_OF_DAY_PORT = 16 * 39906
    /\ enc_ret = 0
    /\ display = 268435456 + 36 * 2097152 + 36 * 16384 + 119 * 128 + 107

\* the pattern clock_update is to show for a reading
PatternOf(raw) ==
    SetDisplayFromTod(SetTodFromPorts(raw, TodZero).tod, 0).display

\* C9: the display port always holds the value written by the most recent
\* successful update (its initial value if there was none); a failed update
\* leaves it so; an update made while the port holds a reading in range
\* succeeds and sets the display port to the pattern of that reading, however
\* many failed updates came before; an update never changes the time port.
C9_Recovery ==
    /\ CLOCK_DISPLAY_PORT = lastGood
    /\ pc = "updated" =>
        /\ TIME_OF_DAY_PORT = pre.port
        /\ ret = 1 => CLOCK_DISPLAY_PORT = pre.lastGood
        /\ RawInRange(TIME_OF_DAY_PORT) =>
              /\ ret = 0
              /\ CLOCK_DISPLAY_PORT = PatternOf(TIME_OF_DAY_PORT)

\* a successful update that follows MaxFailed failed ones and changes the
\* pattern shown
C9_Witness ==
    /\ pc = "updated"
    /\ ret = 0
    /\ pre.failed = MaxFailed
    /\ pre.dport \notin PriorDisplays
    /\ CLOCK_DISPLAY_PORT # pre.dport

\* C10: in clock_update a successful decode is always followed by a
\* successful encode, so the value written is never the placeholder 0, always
\* carries exactly one meridiem bit and is the pattern of the reading.
C10_EncodeNeverFails ==
    (pc = "updated" /\ RawInRange(TIME_OF_DAY_PORT)) =>
        /\ ret = 0
        /\ enc_ret = 0
        /\ CLOCK_DISPLAY_PORT # 0
        /\ Bit(CLOCK_DISPLAY_PORT, 28) + Bit(CLOCK_DISPLAY_PORT, 29) = 1
        /\ CLOCK_DISPLAY_PORT = PatternOf(TIME_OF_DAY_PORT)

\* an afternoon reading (raw hour 23) written by a successful update
C10_Witness ==
    /\ pc = "updated"
    /\ ret = 0
    /\ enc_ret = 0
    /\ TIME_OF_DAY_PORT = 16 * (3600 * 23 + 60 * 53) + 3
    /\ Field(CLOCK_DISPLAY_PORT, 21) = mask[1]
    /\ Field(CLOCK_DISPLAY_PORT, 14) = mask[1]
    /\ Bit(CLOCK_DISPLAY_PORT, 29) = 1

====
